---- MODULE Spec2Model ----
(***************************************************************************)
(* CallAgain (src/src/index.ts): a wrapper that schedules calls of a       *)
(* target function under a concurrency limit, a calls-per-interval limit   *)
(* and a retry-on-error policy.                                            *)
(*                                                                         *)
(* One action per event-loop job: a call of the wrapped function, a        *)
(* registration of an error handler, the cycle timer's tick, the microtask *)
(* that invokes the target, the handler of the target's outcome, and the   *)
(* trailing .then(update).then(_planNextCycle).  Date.now() is the         *)
(* variable now.  The Loki collections are modelled by their contract:     *)
(* count and find read the documents' current field values.                *)
(***************************************************************************)
EXTENDS Integers, Sequences, FiniteSets, TLC

\* ---- bounds of the model
MaxCalls == 2
MaxTime == 5
MaxHandlers == 2
MaxRetryCalls == 1
MaxRetryTime == 4
MaxResets == 1
MaxLiveCalls == 2
MaxLiveTime == 1

\* ---- program constants
Undefined == -1
DefaultMaxRetryAttempts == 10
DefaultDelayOnRetry == 1000
InitCycleDelay == 1

\* ---- the small sets the inputs are drawn from
ArgValues == {"a1", "a2"}
Results == {"r1"}
Errors == {"e1", "e2"}
HandlerKinds == {"retry", "fail", "next"}
Reasons == {"x", "undefined"}

\* the callers pass a1, a2, a1, ...: two consecutive calls differ in their arguments
ArgOf(id) == IF id % 2 = 1 THEN "a1" ELSE "a2"

\* the targets throw e1, e2, e1, ...: two consecutive attempts differ in their errors
ErrorOf(attempt) == IF attempt % 2 = 1 THEN "e1" ELSE "e2"

Options(c, r, d, m, l) ==
    [maxConcurrentCalls |-> c, maxRetryAttempts |-> r, delayOnRetry |-> d,
     maxCallsPerInterval |-> m, intervalLength |-> l]

\* options with a limit, a retry policy short enough to be exhausted
LimitOptions ==
    { Options(1, 2, 1, Undefined, Undefined),
      Options(2, 2, 1, Undefined, Undefined),
      Options(Undefined, 2, 1, 1, 2),
      Options(Undefined, 2, 1, 2, 2),
      Options(1, 2, 1, 2, 2) }

\* options without any limit: the defaults, and a given retry policy
FreeOptions ==
    { Options(Undefined, Undefined, Undefined, Undefined, Undefined),
      Options(Undefined, 2, 1, Undefined, Undefined) }

\* options for rejectAll: one concurrent call, as in its test "cancels waiting"
ResetOptions ==
    { Options(1, 2, 1, Undefined, Undefined) }

\* options for the retry policy: one attempt, and two
RetryOptions ==
    { Options(Undefined, 1, 1, Undefined, Undefined),
      Options(Undefined, 2, 1, Undefined, Undefined) }

\* options for the wake-up: a retry delay and an interval longer than the
\* delay of the timer armed for an entry in init
WakeOptions ==
    { Options(Undefined, 2, 2, Undefined, Undefined),
      Options(Undefined, 2, 1, 1, 3) }

\* options for the settlement under limits: the concurrency limit alone, the
\* interval limit alone (a first failure is final), and both
LiveOptions ==
    { Options(1, 2, 1, Undefined, Undefined),
      Options(Undefined, 1, 1, 1, 2),
      Options(1, 2, 1, 1, 1) }

\* options with one half of the interval limit only
HalfOptions ==
    { Options(1, 2, 1, 1, Undefined),
      Options(2, 2, 1, Undefined, 2) }

VARIABLES
    _maxConcurrentCalls, _maxRetryAttempts, _delayOnRetry,
    _maxCallsPerInterval, _intervalLength,
    _cycleTimer,      \* Undefined, or the handle (the due time) of the armed timer
    _entries,         \* id -> CallEntry
    _history,         \* sequence of CallHistory
    _errorHandlers,   \* sequence of handlers, consulted from index 1
    _lastId,
    now,              \* Date.now()
    timers,           \* the due times of the pending setTimeout callbacks
    pc,               \* id -> where the entry's promise chain of _processEntry stands
    promise,          \* id -> the promise _onWrapperCalled returned
    obs,              \* id -> what the target and the settlement functions saw
    registered,       \* the kinds of the handlers given to onError, in call order
    classified,       \* the last run of _shouldRetryOnError
    resets            \* the calls of rejectAll: reason, time, entries in init or waiting

config == <<_maxConcurrentCalls, _maxRetryAttempts, _delayOnRetry,
            _maxCallsPerInterval, _intervalLength>>
vars == <<_maxConcurrentCalls, _maxRetryAttempts, _delayOnRetry,
          _maxCallsPerInterval, _intervalLength, _cycleTimer, _entries,
          _history, _errorHandlers, _lastId, now, timers, pc, promise, obs,
          registered, classified, resets>>

\* ---- helpers
Min(a, b) == IF a < b THEN a ELSE b

\* x || dflt on an optional number: undefined and 0 are falsy
OrDefault(x, dflt) == IF x = Undefined \/ x = 0 THEN dflt ELSE x

\* collection.count({status: s})
CountStatus(es, s) == Cardinality({i \in DOMAIN es : es[i].status = s})

\* chain().find(..).simplesort('id').limit(k): the k smallest ids of S
Limit(S, k) == {i \in S : Cardinality({j \in S : j < i}) < k}

\* the least element of a non-empty set of numbers
Least(S) == CHOOSE x \in S : \A y \in S : x <= y

\* ---- the constructor
Constructor(o) ==
    /\ _maxConcurrentCalls = o.maxConcurrentCalls
    /\ _maxRetryAttempts = OrDefault(o.maxRetryAttempts, DefaultMaxRetryAttempts)
    /\ _delayOnRetry = OrDefault(o.delayOnRetry, DefaultDelayOnRetry)
    /\ _maxCallsPerInterval = o.maxCallsPerInterval
    /\ _intervalLength = o.intervalLength
    /\ _cycleTimer = Undefined
    /\ _entries = <<>>
    /\ _history = <<>>
    /\ _errorHandlers = <<[name |-> 0, kind |-> "retry"]>>
    /\ _lastId = 0
    /\ now = 1
    /\ timers = <<>>
    /\ pc = <<>>
    /\ promise = <<>>
    /\ obs = <<>>
    /\ registered = <<>>
    /\ classified = [n |-> 0, consulted |-> <<>>, verdict |-> "none"]
    /\ resets = <<>>

\* ---- the limit calculators
\* (mutant) the calls in progress are not subtracted
CallsLeftIgnoringCurrentCalls(es) ==
    IF _maxConcurrentCalls = Undefined THEN Undefined ELSE _maxConcurrentCalls

_calculateCallsLeftBeforeConcurrentLimit(es) ==
    IF _maxConcurrentCalls = Undefined THEN Undefined
    ELSE LET currentCalls == CountStatus(es, "processing")
             callsLeft == _maxConcurrentCalls - currentCalls
         IN  IF callsLeft < 0 THEN 0 ELSE callsLeft

\* (mutant) without an interval length every call ever made is counted
CallsLeftOverWholeHistory(h, t) ==
    IF _maxCallsPerInterval = Undefined THEN Undefined
    ELSE LET callsMade ==
                 IF _intervalLength = Undefined THEN Len(h)
                 ELSE Cardinality({k \in DOMAIN h : h[k].timestamp >= t - _intervalLength})
             callsLeft == _maxCallsPerInterval - callsMade
         IN  IF callsLeft < 0 THEN 0 ELSE callsLeft

\* (mutant) a call made exactly intervalLength ago is no longer counted
CallsLeftWithOpenInterval(h, t) ==
    IF _maxCallsPerInterval = Undefined THEN Undefined
    ELSE IF _intervalLength = Undefined THEN Undefined
    ELSE LET intervalStartTime == t - _intervalLength
             callsMade == Cardinality({k \in DOMAIN h : h[k].timestamp > intervalStartTime})
             callsLeft == _maxCallsPerInterval - callsMade
         IN  IF callsLeft < 0 THEN 0 ELSE callsLeft

_calculateCallsLeftBeforeIntervalLimit(h, t) ==
    IF _maxCallsPerInterval = Undefined THEN Undefined
    ELSE IF _intervalLength = Undefined THEN Undefined
    ELSE LET intervalStartTime == t - _intervalLength
             callsMade == Cardinality({k \in DOMAIN h : h[k].timestamp >= intervalStartTime})
             callsLeft == _maxCallsPerInterval - callsMade
         IN  IF callsLeft < 0 THEN 0 ELSE callsLeft

\* ---- the cycle scheduler
\* (mutant) no wake-up for an entry whose delay is still to come
NextCycleDelayWithoutClosest(es, h, t) ==
    LET waiting == {i \in DOMAIN es : es[i].status = "waiting"}
    IN  IF CountStatus(es, "init") = 0 /\ waiting = {} THEN Undefined
        ELSE IF waiting = {} THEN InitCycleDelay
        ELSE IF _calculateCallsLeftBeforeIntervalLimit(h, t) = 0 THEN _intervalLength
        ELSE IF _calculateCallsLeftBeforeConcurrentLimit(es) = 0 THEN Undefined
        ELSE IF \E i \in waiting : es[i].delay <= t THEN 0
        ELSE Undefined

\* (mutant) no wake-up when the interval limit is reached
NextCycleDelayIdleAtIntervalLimit(es, h, t) ==
    LET waiting == {i \in DOMAIN es : es[i].status = "waiting"}
    IN  IF CountStatus(es, "init") = 0 /\ waiting = {} THEN Undefined
        ELSE IF waiting = {} THEN InitCycleDelay
        ELSE IF _calculateCallsLeftBeforeIntervalLimit(h, t) = 0 THEN Undefined
        ELSE IF _calculateCallsLeftBeforeConcurrentLimit(es) = 0 THEN Undefined
        ELSE IF \E i \in waiting : es[i].delay <= t THEN 0
        ELSE Least({es[i].delay : i \in waiting}) - t

\* (mutant) no wake-up for an entry that is still in init
NextCycleDelayWithoutInit(es, h, t) ==
    LET waiting == {i \in DOMAIN es : es[i].status = "waiting"}
    IN  IF waiting = {} THEN Undefined
        ELSE IF _calculateCallsLeftBeforeIntervalLimit(h, t) = 0 THEN _intervalLength
        ELSE IF _calculateCallsLeftBeforeConcurrentLimit(es) = 0 THEN Undefined
        ELSE IF \E i \in waiting : es[i].delay <= t THEN 0
        ELSE Least({es[i].delay : i \in waiting}) - t

_calculateNextCycleDelay(es, h, t) ==
    LET initEntriesCount == CountStatus(es, "init")
        waitingEntriesCount == CountStatus(es, "waiting")
        waiting == {i \in DOMAIN es : es[i].status = "waiting"}
        plannedForNowCount == Cardinality({i \in waiting : es[i].delay <= t})
    IN  IF initEntriesCount = 0 /\ waitingEntriesCount = 0 THEN Undefined
        ELSE IF waitingEntriesCount = 0 THEN InitCycleDelay
        ELSE IF _calculateCallsLeftBeforeIntervalLimit(h, t) = 0 THEN _intervalLength
        ELSE IF _calculateCallsLeftBeforeConcurrentLimit(es) = 0 THEN Undefined
        ELSE IF plannedForNowCount > 0 THEN 0
        ELSE LET delay == Least({es[i].delay : i \in waiting}) - t
             IN  IF delay < 0 THEN 0 ELSE delay

\* (mutant) a timer is armed though one is armed already
PlanNextCycleUnguarded(timer, tms, es, h, t) ==
    LET timeout == _calculateNextCycleDelay(es, h, t)
    IN  IF timeout = Undefined THEN [timer |-> timer, timers |-> tms]
        ELSE [timer |-> t + timeout, timers |-> Append(tms, t + timeout)]

\* the timer state [timer, timers] that _planNextCycle leaves
_planNextCycle(timer, tms, es, h, t) ==
    IF timer # Undefined THEN [timer |-> timer, timers |-> tms]
    ELSE LET timeout == _calculateNextCycleDelay(es, h, t)
         IN  IF timeout = Undefined THEN [timer |-> timer, timers |-> tms]
             ELSE [timer |-> t + timeout, timers |-> Append(tms, t + timeout)]

\* (mutant) the entries are selected whatever their delay
EntriesToProcessIgnoringDelay(es, h, t) ==
    LET waitingEntriesCount == CountStatus(es, "waiting")
        cc == _calculateCallsLeftBeforeConcurrentLimit(es)
        ci == _calculateCallsLeftBeforeIntervalLimit(h, t)
        callsLeftBeforeConcurrentLimit == IF cc = Undefined THEN waitingEntriesCount ELSE cc
        callsLeftBeforeIntervalLimit == IF ci = Undefined THEN waitingEntriesCount ELSE ci
        maxCallsBeforeLimit == Min(callsLeftBeforeConcurrentLimit, callsLeftBeforeIntervalLimit)
    IN  Limit({i \in DOMAIN es : es[i].status = "waiting"}, maxCallsBeforeLimit)

\* (mutant) Math.max instead of Math.min
EntriesToProcessUpToMax(es, h, t) ==
    LET waitingEntriesCount == CountStatus(es, "waiting")
        cc == _calculateCallsLeftBeforeConcurrentLimit(es)
        ci == _calculateCallsLeftBeforeIntervalLimit(h, t)
        callsLeftBeforeConcurrentLimit == IF cc = Undefined THEN waitingEntriesCount ELSE cc
        callsLeftBeforeIntervalLimit == IF ci = Undefined THEN waitingEntriesCount ELSE ci
        maxCallsBeforeLimit == IF callsLeftBeforeConcurrentLimit > callsLeftBeforeIntervalLimit
                                 THEN callsLeftBeforeConcurrentLimit
                               ELSE callsLeftBeforeIntervalLimit
    IN  Limit({i \in DOMAIN es : es[i].status = "waiting" /\ es[i].delay < t},
              maxCallsBeforeLimit)

\* the entries a tick hands to _processEntry
EntriesToProcess(es, h, t) ==
    LET waitingEntriesCount == CountStatus(es, "waiting")
        cc == _calculateCallsLeftBeforeConcurrentLimit(es)
        ci == _calculateCallsLeftBeforeIntervalLimit(h, t)
        callsLeftBeforeConcurrentLimit == IF cc = Undefined THEN waitingEntriesCount ELSE cc
        callsLeftBeforeIntervalLimit == IF ci = Undefined THEN waitingEntriesCount ELSE ci
        maxCallsBeforeLimit == Min(callsLeftBeforeConcurrentLimit, callsLeftBeforeIntervalLimit)
    IN  Limit({i \in DOMAIN es : es[i].status = "waiting" /\ es[i].delay < t},
              maxCallsBeforeLimit)

\* (mutant) one record per cycle, of its first entry
InsertHistoryOncePerCycle(h, S, t) ==
    IF S = {} THEN h
    ELSE Append(h, [entryId |-> Least(S), timestamp |-> t])

\* the history after _processEntry ran for the ids of S in ascending order
RECURSIVE InsertHistory(_, _, _)
InsertHistory(h, S, t) ==
    IF S = {} THEN h
    ELSE LET i == Least(S)
         IN  InsertHistory(Append(h, [entryId |-> i, timestamp |-> t]), S \ {i}, t)

\* a job of the microtask queue is pending: timers run only when there is none
MicrotaskPending == \E i \in DOMAIN pc : pc[i] \in {"call", "plan"}

\* ---- the error classification chain
\* getHandler(index)(err): the verdict and the names of the handlers called;
\* past the end of the list the handler is undefined and calling it throws
RECURSIVE GetHandler(_, _, _)
GetHandler(hs, index, err) ==
    IF index > Len(hs) THEN [verdict |-> "throw", consulted |-> <<>>]
    ELSE LET handler == hs[index]
         IN  IF handler.kind = "retry"
               THEN [verdict |-> "true", consulted |-> <<handler.name>>]
             ELSE IF handler.kind = "fail"
               THEN [verdict |-> "false", consulted |-> <<handler.name>>]
             ELSE LET r == GetHandler(hs, index + 1, err)
                  IN  [verdict |-> r.verdict, consulted |-> <<handler.name>> \o r.consulted]

_shouldRetryOnError(hs, err) == GetHandler(hs, 1, err)

\* (mutant) push instead of unshift
UnshiftAsPush(hs, handler) == Append(hs, handler)

\* _errorHandlers.unshift(handler)
Unshift(hs, handler) == <<handler>> \o hs

\* ---- the lifecycle driver
NotConsulted == [verdict |-> "none", consulted |-> <<>>]
NoCall == [fn |-> "none", value |-> "undefined", via |-> "undefined"]

\* the insert of _onWrapperCalled
NewEntry(id, args) ==
    [id |-> id, args |-> args, resolve |-> "undefined", status |-> "init",
     attempts |-> 0, delay |-> 0]

\* (mutant) the status is left as inserted
AttachSettlementLeavingInit(e) == [e EXCEPT !.resolve = "promise"]

\* the findAndUpdate of _onWrapperCalled, inside the promise's executor
AttachSettlement(e) == [e EXCEPT !.resolve = "promise", !.status = "waiting"]

\* the arguments func.apply hands to the target
ApplyArgs(e) == e.args

\* (mutant) resolve is called without the result
ThenBranchDroppingResult(e, result) ==
    [entry |-> [e EXCEPT !.status = "done"],
     call |-> [fn |-> "resolve", value |-> "undefined", via |-> e.resolve],
     chain |-> NotConsulted, thrown |-> FALSE]

\* .then(result => ...): the entry and the settlement call it makes
ThenBranch(e, result) ==
    [entry |-> [e EXCEPT !.status = "done"],
     call |-> [fn |-> "resolve", value |-> result, via |-> e.resolve],
     chain |-> NotConsulted, thrown |-> FALSE]

\* (mutant) the error is thrown again after the last attempt's reject
CatchBranchRethrowing(e, err, hs, t) ==
    LET attempts == e.attempts + 1
        e1 == [e EXCEPT !.attempts = attempts]
    IN  IF _maxRetryAttempts # Undefined /\ attempts >= _maxRetryAttempts
          THEN [entry |-> [e1 EXCEPT !.status = "done"],
                call |-> [fn |-> "reject", value |-> err, via |-> e.resolve],
                chain |-> NotConsulted, thrown |-> TRUE]
        ELSE LET c == _shouldRetryOnError(hs, err)
             IN  IF c.verdict = "true"
                   THEN [entry |-> [e1 EXCEPT !.delay = t + _delayOnRetry,
                                              !.status = "waiting"],
                         call |-> NoCall, chain |-> c, thrown |-> FALSE]
                 ELSE [entry |-> [e1 EXCEPT !.status = "done"],
                       call |-> [fn |-> "reject", value |-> err, via |-> e.resolve],
                       chain |-> c, thrown |-> FALSE]

\* (mutant) the attempts are compared with > instead of >=
CatchBranchOneMoreAttempt(e, err, hs, t) ==
    LET attempts == e.attempts + 1
        e1 == [e EXCEPT !.attempts = attempts]
    IN  IF _maxRetryAttempts # Undefined /\ attempts > _maxRetryAttempts
          THEN [entry |-> [e1 EXCEPT !.status = "done"],
                call |-> [fn |-> "reject", value |-> err, via |-> e.resolve],
                chain |-> NotConsulted, thrown |-> FALSE]
        ELSE LET c == _shouldRetryOnError(hs, err)
             IN  IF c.verdict = "true"
                   THEN [entry |-> [e1 EXCEPT !.delay = t + _delayOnRetry,
                                              !.status = "waiting"],
                         call |-> NoCall, chain |-> c, thrown |-> FALSE]
                 ELSE [entry |-> [e1 EXCEPT !.status = "done"],
                       call |-> [fn |-> "reject", value |-> err, via |-> e.resolve],
                       chain |-> c, thrown |-> FALSE]

\* (mutant) reject is called on the retry path too
CatchBranchRejectingOnRetry(e, err, hs, t) ==
    LET attempts == e.attempts + 1
        e1 == [e EXCEPT !.attempts = attempts]
    IN  IF _maxRetryAttempts # Undefined /\ attempts >= _maxRetryAttempts
          THEN [entry |-> [e1 EXCEPT !.status = "done"],
                call |-> [fn |-> "reject", value |-> err, via |-> e.resolve],
                chain |-> NotConsulted, thrown |-> FALSE]
        ELSE LET c == _shouldRetryOnError(hs, err)
             IN  IF c.verdict = "true"
                   THEN [entry |-> [e1 EXCEPT !.delay = t + _delayOnRetry,
                                              !.status = "waiting"],
                         call |-> [fn |-> "reject", value |-> err, via |-> e.resolve],
                         chain |-> c, thrown |-> FALSE]
                 ELSE [entry |-> [e1 EXCEPT !.status = "done"],
                       call |-> [fn |-> "reject", value |-> err, via |-> e.resolve],
                       chain |-> c, thrown |-> FALSE]

\* (mutant) the chain's verdict is not looked at: a failure is retried
CatchBranchIgnoringVerdict(e, err, hs, t) ==
    LET attempts == e.attempts + 1
        e1 == [e EXCEPT !.attempts = attempts]
    IN  IF _maxRetryAttempts # Undefined /\ attempts >= _maxRetryAttempts
          THEN [entry |-> [e1 EXCEPT !.status = "done"],
                call |-> [fn |-> "reject", value |-> err, via |-> e.resolve],
                chain |-> NotConsulted, thrown |-> FALSE]
        ELSE [entry |-> [e1 EXCEPT !.delay = t + _delayOnRetry, !.status = "waiting"],
              call |-> NoCall, chain |-> _shouldRetryOnError(hs, err),
              thrown |-> FALSE]

\* .catch(e => ...): the entry, the settlement call and the chain's run
CatchBranch(e, err, hs, t) ==
    LET attempts == e.attempts + 1
        e1 == [e EXCEPT !.attempts = attempts]
    IN  IF _maxRetryAttempts # Undefined /\ attempts >= _maxRetryAttempts
          THEN [entry |-> [e1 EXCEPT !.status = "done"],
                call |-> [fn |-> "reject", value |-> err, via |-> e.resolve],
                chain |-> NotConsulted, thrown |-> FALSE]
        ELSE LET c == _shouldRetryOnError(hs, err)
             IN  IF c.verdict = "true"
                   THEN [entry |-> [e1 EXCEPT !.delay = t + _delayOnRetry,
                                              !.status = "waiting"],
                         call |-> NoCall, chain |-> c, thrown |-> FALSE]
                 ELSE IF c.verdict = "false"
                   THEN [entry |-> [e1 EXCEPT !.status = "done"],
                         call |-> [fn |-> "reject", value |-> err, via |-> e.resolve],
                         chain |-> c, thrown |-> FALSE]
                 ELSE [entry |-> e1, call |-> NoCall, chain |-> c, thrown |-> TRUE]

\* a promise settles with the first call of its resolve or reject, and only then;
\* call.via is the entry's resolve/reject field: the promise's own functions
Settle(p, call) ==
    IF call.fn = "none" \/ call.via # "promise" \/ p.state # "pending" THEN p
    ELSE [state |-> IF call.fn = "resolve" THEN "resolved" ELSE "rejected",
          value |-> call.value]

\* what is observed of a new call
NewObs(args) ==
    [args |-> args, attached |-> 0, calls |-> 0, seen |-> {},
     invokedAt |-> 0, failedAt |-> 0, failures |-> 0,
     last |-> [kind |-> "none", value |-> "undefined"],
     verdict |-> "none", resolveCalls |-> 0, rejectCalls |-> 0]

\* what is observed of an outcome handled by ThenBranch or CatchBranch
ObserveOutcome(o, kind, value, r, t) ==
    [o EXCEPT !.last = [kind |-> kind, value |-> value],
              !.failedAt = IF kind = "error" THEN t ELSE @,
              !.failures = IF kind = "error" THEN @ + 1 ELSE @,
              !.verdict = r.chain.verdict,
              !.resolveCalls = IF r.call.fn = "resolve" THEN @ + 1 ELSE @,
              !.rejectCalls = IF r.call.fn = "reject" THEN @ + 1 ELSE @]

\* ---- rejectAll, of which src/ holds the tests and the README only
\* (mutant) the entries in init or waiting are kept in the store
ResetEntriesKeepingWaiting(es) ==
    [i \in DOMAIN es |->
        IF es[i].status = "processing" THEN [es[i] EXCEPT !.resolve = "discard"]
        ELSE es[i]]

\* the store after rejectAll: the entries in init or waiting are discarded, the
\* entries in flight are marked so that their outcome settles nothing
ResetEntries(es) ==
    [i \in {j \in DOMAIN es : es[j].status \notin {"init", "waiting"}} |->
        IF es[i].status = "processing" THEN [es[i] EXCEPT !.resolve = "discard"]
        ELSE es[i]]

\* the promises after rejectAll(reason)
ResetPromises(ps, es, reason) ==
    [i \in DOMAIN ps |->
        IF i \in DOMAIN es /\ es[i].status \in {"init", "waiting"}
          THEN Settle(ps[i], [fn |-> "reject", value |-> reason, via |-> "promise"])
        ELSE ps[i]]

\* ---- the operations
\* the wrapped function is called with args
_onWrapperCalled(args) ==
    /\ LET id == _lastId + 1
           inserted == _entries @@ (id :> NewEntry(id, args))
           planned == _planNextCycle(_cycleTimer, timers, inserted, _history, now)
       IN  /\ _lastId' = id
           /\ _cycleTimer' = planned.timer
           /\ timers' = planned.timers
           /\ _entries' = [inserted EXCEPT ![id] = AttachSettlement(@)]
           /\ pc' = pc @@ (id :> "idle")
           /\ promise' = promise @@ (id :> [state |-> "pending", value |-> "undefined"])
           /\ obs' = obs @@ (id :> [NewObs(args) EXCEPT !.attached =
                                       IF AttachSettlement(inserted[id]).resolve = "promise" THEN 1 ELSE 0])
    /\ UNCHANGED <<config, resets, _history, _errorHandlers, now, registered, classified>>

\* onError(handler), with a handler of the given kind
onError(kind) ==
    /\ Len(registered) < MaxHandlers
    /\ _errorHandlers' = Unshift(_errorHandlers,
                                 [name |-> Len(registered) + 1, kind |-> kind])
    /\ registered' = Append(registered, kind)
    /\ UNCHANGED <<config, resets, _cycleTimer, _entries, _history, _lastId, now, timers,
                   pc, promise, obs, classified>>

\* the timer armed by _planNextCycle fires
_onCycleTimerTick ==
    /\ ~MicrotaskPending
    /\ \E k \in DOMAIN timers :
        /\ timers[k] <= now
        /\ LET rest == SubSeq(timers, 1, k - 1) \o SubSeq(timers, k + 1, Len(timers))
               S == IF CountStatus(_entries, "waiting") = 0 THEN {}
                    ELSE EntriesToProcess(_entries, _history, now)
               es == [i \in DOMAIN _entries |->
                        IF i \in S THEN [_entries[i] EXCEPT !.status = "processing"]
                        ELSE _entries[i]]
               h == InsertHistory(_history, S, now)
               planned == IF CountStatus(_entries, "waiting") = 0
                            THEN [timer |-> Undefined, timers |-> rest]
                          ELSE _planNextCycle(Undefined, rest, es, h, now)
           IN  /\ _entries' = es
               /\ _history' = h
               /\ pc' = [i \in DOMAIN pc |-> IF i \in S THEN "call" ELSE pc[i]]
               /\ _cycleTimer' = planned.timer
               /\ timers' = planned.timers
    /\ UNCHANGED <<config, resets, _errorHandlers, _lastId, now, promise, obs, registered,
                   classified>>

\* Promise.resolve().then(() => entry.func.apply(undefined, entry.args))
ApplyFunc(id) ==
    /\ pc[id] = "call"
    /\ pc' = [pc EXCEPT ![id] = "running"]
    /\ obs' = [obs EXCEPT ![id].calls = @ + 1,
                          ![id].seen = @ \cup {ApplyArgs(_entries[id])},
                          ![id].invokedAt = now]
    /\ UNCHANGED <<config, resets, _cycleTimer, _entries, _history, _errorHandlers, _lastId,
                   now, timers, promise, registered, classified>>

\* the target returned result: .then(result => ...)
OnFulfilled(id, result) ==
    /\ pc[id] = "running"
    /\ LET r == ThenBranch(_entries[id], result)
       IN  /\ _entries' = [_entries EXCEPT ![id] = r.entry]
           /\ promise' = [promise EXCEPT ![id] = Settle(@, r.call)]
           /\ obs' = [obs EXCEPT ![id] = ObserveOutcome(@, "result", result, r, now)]
    /\ pc' = [pc EXCEPT ![id] = "plan"]
    /\ UNCHANGED <<config, resets, _cycleTimer, _history, _errorHandlers, _lastId, now,
                   timers, registered, classified>>

\* the target failed with err: .catch(e => ...)
OnRejected(id, err) ==
    /\ pc[id] = "running"
    /\ LET r == CatchBranch(_entries[id], err, _errorHandlers, now)
       IN  /\ _entries' = [_entries EXCEPT ![id] = r.entry]
           /\ promise' = [promise EXCEPT ![id] = Settle(@, r.call)]
           /\ obs' = [obs EXCEPT ![id] = ObserveOutcome(@, "error", err, r, now)]
           /\ pc' = [pc EXCEPT ![id] = IF r.thrown THEN "broken" ELSE "plan"]
           /\ classified' = IF r.chain.verdict = "none" THEN classified
                            ELSE [n |-> Len(registered), consulted |-> r.chain.consulted,
                                  verdict |-> r.chain.verdict]
    /\ UNCHANGED <<config, resets, _cycleTimer, _history, _errorHandlers, _lastId, now,
                   timers, registered>>

\* .then(() => this._entries.update(entry)).then(() => this._planNextCycle())
UpdateAndPlan(id) ==
    /\ pc[id] = "plan"
    /\ LET planned == _planNextCycle(_cycleTimer, timers, _entries, _history, now)
       IN  /\ _cycleTimer' = planned.timer
           /\ timers' = planned.timers
    /\ pc' = [pc EXCEPT ![id] = "idle"]
    /\ UNCHANGED <<config, resets, _entries, _history, _errorHandlers, _lastId, now, promise,
                   obs, registered, classified>>

\* a millisecond passes
Advance(limit) ==
    /\ now < limit
    /\ now' = now + 1
    /\ UNCHANGED <<config, resets, _cycleTimer, _entries, _history, _errorHandlers, _lastId,
                   timers, pc, promise, obs, registered, classified>>

\* the jobs of the event loop, while the clock is below limit
Jobs(limit) ==
    \/ _onCycleTimerTick
    \/ \E id \in DOMAIN pc : ApplyFunc(id)
    \/ \E id \in DOMAIN pc, result \in Results : OnFulfilled(id, result)
    \/ \E id \in DOMAIN pc, err \in Errors :
          err = ErrorOf(obs[id].calls) /\ OnRejected(id, err)
    \/ \E id \in DOMAIN pc : UpdateAndPlan(id)
    \/ Advance(limit)

\* ---- the scheduler under its limits, with the default error handler
Init == \E o \in LimitOptions : Constructor(o)

Next ==
    \/ \E args \in ArgValues :
          _lastId < MaxCalls /\ args = ArgOf(_lastId + 1) /\ _onWrapperCalled(args)
    \/ Jobs(MaxTime)

Spec == Init /\ [][Next]_vars

\* ---- no limit and targets that succeed, every job of the loop run in the end
InitFree == \E o \in FreeOptions : Constructor(o)

NextFree ==
    \/ \E args \in ArgValues :
          /\ _lastId < MaxCalls /\ now < MaxTime
          /\ args = ArgOf(_lastId + 1) /\ _onWrapperCalled(args)
    \/ _onCycleTimerTick
    \/ \E id \in DOMAIN pc : ApplyFunc(id)
    \/ \E id \in DOMAIN pc, result \in Results : OnFulfilled(id, result)
    \/ \E id \in DOMAIN pc : UpdateAndPlan(id)
    \/ Advance(MaxTime)

FairFree ==
    /\ WF_vars(_onCycleTimerTick)
    /\ WF_vars(Advance(MaxTime))
    /\ \A id \in 1..MaxCalls :
         /\ WF_vars(id \in DOMAIN pc /\ ApplyFunc(id))
         /\ WF_vars(id \in DOMAIN pc /\ \E result \in Results : OnFulfilled(id, result))
         /\ WF_vars(id \in DOMAIN pc /\ UpdateAndPlan(id))

SpecFree == InitFree /\ [][NextFree]_vars /\ FairFree

\* ---- rejectAll called at any time
rejectAll(reason) ==
    /\ Len(resets) < MaxResets
    /\ LET waiting == {i \in DOMAIN _entries : _entries[i].status \in {"init", "waiting"}}
       IN  /\ resets' = Append(resets, [reason |-> reason, at |-> now,
                                        calls |-> [i \in waiting |-> obs[i].calls]])
           /\ obs' = [i \in DOMAIN obs |->
                        IF i \in waiting THEN [obs[i] EXCEPT !.rejectCalls = @ + 1]
                        ELSE obs[i]]
    /\ _entries' = ResetEntries(_entries)
    /\ promise' = ResetPromises(promise, _entries, reason)
    /\ _cycleTimer' = Undefined
    /\ timers' = <<>>
    /\ UNCHANGED <<config, _history, _errorHandlers, _lastId, now, pc, registered,
                   classified>>

InitReset == \E o \in ResetOptions : Constructor(o)

NextReset ==
    \/ \E args \in ArgValues :
          _lastId < MaxCalls /\ args = ArgOf(_lastId + 1) /\ _onWrapperCalled(args)
    \/ \E reason \in Reasons : rejectAll(reason)
    \/ Jobs(MaxRetryTime)

SpecReset == InitReset /\ [][NextReset]_vars

\* ---- the retry policy, with error handlers registered at any time
InitRetry == \E o \in RetryOptions : Constructor(o)

NextRetry ==
    \/ \E args \in ArgValues :
          _lastId < MaxRetryCalls /\ args = ArgOf(_lastId + 1) /\ _onWrapperCalled(args)
    \/ \E kind \in HandlerKinds : onError(kind)
    \/ Jobs(MaxRetryTime)

SpecRetry == InitRetry /\ [][NextRetry]_vars

\* ---- the wake-up, with a retry delay and an interval of more than a millisecond
InitWake == \E o \in WakeOptions : Constructor(o)

NextWake ==
    \/ \E args \in ArgValues :
          _lastId < MaxCalls /\ args = ArgOf(_lastId + 1) /\ _onWrapperCalled(args)
    \/ Jobs(MaxTime)

SpecWake == InitWake /\ [][NextWake]_vars

\* ---- limits, failures and retries, every job of the loop run in the end
\* a timer or a waiting entry's delay is still ahead of the clock
TimeAwaited ==
    \/ _cycleTimer # Undefined /\ _cycleTimer > now
    \/ \E i \in DOMAIN _entries :
          _entries[i].status = "waiting" /\ _entries[i].delay >= now

\* a millisecond passes, between two runs of the microtask queue: at any
\* moment up to MaxLiveTime, and later whenever the scheduler waits for the clock
AdvanceLive ==
    /\ ~MicrotaskPending
    /\ now < MaxLiveTime \/ TimeAwaited
    /\ now' = now + 1
    /\ UNCHANGED <<config, resets, _cycleTimer, _entries, _history, _errorHandlers, _lastId,
                   timers, pc, promise, obs, registered, classified>>

\* the target of entry id completes, with a result or with an error
Completes(id) ==
    \/ \E result \in Results : OnFulfilled(id, result)
    \/ \E err \in Errors : err = ErrorOf(obs[id].calls) /\ OnRejected(id, err)

InitLive == \E o \in LiveOptions : Constructor(o)

\* the jobs of the event loop
LoopLive ==
    \/ _onCycleTimerTick
    \/ \E id \in DOMAIN pc : ApplyFunc(id)
    \/ \E id \in DOMAIN pc : Completes(id)
    \/ \E id \in DOMAIN pc : UpdateAndPlan(id)
    \/ AdvanceLive

NextLive ==
    \/ \E args \in ArgValues :
          _lastId < MaxLiveCalls /\ args = ArgOf(_lastId + 1) /\ _onWrapperCalled(args)
    \/ LoopLive

\* the event loop runs a job whenever one is ready: a due timer, a microtask,
\* the completion of a running target, the clock
FairLive == WF_vars(LoopLive)

SpecLive == InitLive /\ [][NextLive]_vars /\ FairLive

\* ---- maxCallsPerInterval without intervalLength, and the reverse
InitHalf == \E o \in HalfOptions : Constructor(o)

NextHalf ==
    \/ \E args \in ArgValues :
          _lastId < MaxCalls /\ args = ArgOf(_lastId + 1) /\ _onWrapperCalled(args)
    \/ Jobs(MaxTime)

SpecHalf == InitHalf /\ [][NextHalf]_vars

TypeOK ==
    /\ _lastId \in Nat
    /\ DOMAIN _entries = 1.._lastId
    /\ \A i \in DOMAIN _entries :
         _entries[i].status \in {"init", "waiting", "processing", "done"}

\* ---- the claims
\* the time of the last dispatch of entry id
LastDispatch(id) ==
    LET ks == {k \in DOMAIN _history : _history[k].entryId = id}
    IN  IF ks = {} THEN 0
        ELSE _history[CHOOSE k \in ks : \A j \in ks : j <= k].timestamp

InProgress == {i \in DOMAIN pc : pc[i] \in {"call", "running"}}

\* C1: with maxConcurrentCalls = C, at most C entries are processing in every
\* reachable state, and at most C targets are dispatched and not yet completed
\* (with C = 1 the second call is not dispatched before the first completed).
C1_ConcurrencyLimit ==
    _maxConcurrentCalls # Undefined =>
        /\ CountStatus(_entries, "processing") <= _maxConcurrentCalls
        /\ Cardinality(InProgress) <= _maxConcurrentCalls

\* the limit is reached, a tick left a dispatchable entry waiting, no timer armed
C1_Witness ==
    /\ _maxConcurrentCalls # Undefined
    /\ CountStatus(_entries, "processing") = _maxConcurrentCalls
    /\ \E i \in DOMAIN _entries :
         _entries[i].status = "waiting" /\ _entries[i].delay < now
    /\ Len(_history) > 0
    /\ timers = <<>>

\* C2: with maxCallsPerInterval = M and intervalLength = L, every window
\* [t - L, t] holds at most M history records, retries included.
C2_IntervalLimit ==
    (_maxCallsPerInterval # Undefined /\ _intervalLength # Undefined) =>
        \A t \in 0..(MaxTime + _intervalLength) :
            Cardinality({k \in DOMAIN _history :
                            /\ _history[k].timestamp >= t - _intervalLength
                            /\ _history[k].timestamp <= t}) <= _maxCallsPerInterval

\* more dispatches than M were made in all, the last one a retry's
C2_Witness ==
    /\ _maxCallsPerInterval # Undefined /\ _intervalLength # Undefined
    /\ Len(_history) > _maxCallsPerInterval
    /\ \E i \in DOMAIN _entries :
         /\ _entries[i].attempts > 0 /\ _entries[i].status = "processing"
         /\ _history[Len(_history)].entryId = i

\* C4: with the default handler only, a call that failed K times and then
\* succeeded resolved after exactly K + 1 invocations, K < maxRetryAttempts; a
\* retried entry is dispatched only after its delay = failure time +
\* delayOnRetry has passed, so its target starts at least delayOnRetry after
\* the failure.
C4_RetryThenSuccess ==
    Len(_errorHandlers) = 1 =>
        \A i \in DOMAIN _entries :
            /\ promise[i].state = "resolved" =>
                 /\ obs[i].calls = obs[i].failures + 1
                 /\ obs[i].failures = _entries[i].attempts
                 /\ obs[i].failures < _maxRetryAttempts
            /\ (obs[i].failures > 0 /\ obs[i].calls > obs[i].failures) =>
                 /\ _entries[i].delay = obs[i].failedAt + _delayOnRetry
                 /\ LastDispatch(i) > _entries[i].delay
                 /\ obs[i].invokedAt >= LastDispatch(i)
                 /\ obs[i].invokedAt >= obs[i].failedAt + _delayOnRetry

\* a call resolved on its second attempt
C4_Witness ==
    \E i \in DOMAIN _entries :
        /\ Len(_errorHandlers) = 1
        /\ promise[i].state = "resolved"
        /\ obs[i].failures = 1
        /\ obs[i].calls = 2

SettleCalls(o) == o.resolveCalls + o.rejectCalls

\* C3 as stated: a call that failed on every attempt was invoked exactly
\* maxRetryAttempts times and rejected with the last error, whatever the
\* handlers returned.
C3_Original ==
    \A i \in DOMAIN _entries :
        /\ obs[i].calls <= _maxRetryAttempts
        /\ promise[i].state = "rejected" =>
             /\ obs[i].calls = _maxRetryAttempts
             /\ promise[i].value = obs[i].last.value

\* C3 (amended): the target is never invoked more than maxRetryAttempts times;
\* the failure of attempt number maxRetryAttempts rejects the promise with that
\* attempt's error without asking the handlers; and a call that failed on every
\* attempt without the chain answering 'do not retry' was invoked exactly
\* maxRetryAttempts times.
C3_Exhaustion ==
    \A i \in DOMAIN _entries :
        /\ obs[i].calls <= _maxRetryAttempts
        /\ obs[i].failures = _maxRetryAttempts =>
             /\ _entries[i].status = "done"
             /\ promise[i] = [state |-> "rejected", value |-> obs[i].last.value]
             /\ obs[i].last.kind = "error"
             /\ obs[i].verdict = "none"
        /\ (promise[i].state = "rejected" /\ obs[i].verdict # "false") =>
             /\ obs[i].calls = _maxRetryAttempts
             /\ obs[i].failures = _maxRetryAttempts

\* a call rejected after two attempts though a registered handler said 'retry'
C3_Witness ==
    \E i \in DOMAIN _entries :
        /\ _maxRetryAttempts = 2
        /\ obs[i].calls = 2
        /\ promise[i] = [state |-> "rejected", value |-> "e2"]
        /\ Len(registered) > 0
        /\ classified.verdict = "true"
        /\ classified.consulted[1] # 0

\* C5: the settlement is attached once, by _onWrapperCalled, with the entry
\* going to waiting; resolve or reject is called at most once in all, in the
\* step that takes the entry from processing to done; the retry step
\* (processing to waiting) calls neither.
C5_SettledOnce ==
    [][\A i \in DOMAIN _entries' :
         IF i \notin DOMAIN _entries
           THEN /\ obs'[i].attached = 1
                /\ _entries'[i].resolve = "promise"
                /\ _entries'[i].status = "waiting"
                /\ SettleCalls(obs'[i]) = 0
           ELSE /\ obs'[i].attached = obs[i].attached
                /\ _entries'[i].resolve = _entries[i].resolve
                /\ SettleCalls(obs'[i]) # SettleCalls(obs[i]) =>
                     /\ SettleCalls(obs[i]) = 0
                     /\ SettleCalls(obs'[i]) = 1
                     /\ _entries[i].status = "processing"
                     /\ _entries'[i].status = "done"
                /\ (_entries[i].status # "done" /\ _entries'[i].status = "done") =>
                     SettleCalls(obs'[i]) = SettleCalls(obs[i]) + 1
                /\ (_entries[i].status = "processing" /\ _entries'[i].status = "waiting") =>
                     /\ SettleCalls(obs'[i]) = 0
                     /\ promise'[i].state = "pending"]_vars

\* an entry that was retried and then settled, by one call
C5_Witness ==
    \E i \in DOMAIN _entries :
        /\ _entries[i].attempts = 1
        /\ obs[i].calls = 2
        /\ _entries[i].status = "done"
        /\ SettleCalls(obs[i]) = 1

\* C7: a classification calls the handlers last-registered-first: the names
\* called are n, n - 1, ... (n handlers registered, 0 the default); each one
\* but the last called delegated with next, the last one called gives the
\* verdict, and the default (retry) is reached only when all n delegated.
C7_LastRegisteredFirst ==
    classified.verdict # "none" =>
        LET n == classified.n
            c == classified.consulted
            final == c[Len(c)]
        IN  /\ Len(c) >= 1
            /\ \A k \in 1..Len(c) : c[k] = n + 1 - k
            /\ \A k \in 1..(Len(c) - 1) : registered[c[k]] = "next"
            /\ IF final = 0 THEN classified.verdict = "true"
               ELSE /\ registered[final] # "next"
                    /\ classified.verdict =
                         (IF registered[final] = "retry" THEN "true" ELSE "false")

\* A then B registered, both delegated, the default gave the verdict
C7_Witness ==
    /\ classified.n = 2
    /\ classified.consulted = <<2, 1, 0>>
    /\ classified.verdict = "true"

\* the verdict of the handlers registered in the order reg (the last one
\* registered that does not delegate decides; the default says retry)
ChainVerdict(reg) ==
    LET decisive == {k \in DOMAIN reg : reg[k] # "next"}
    IN  IF decisive = {} THEN "true"
        ELSE IF reg[CHOOSE k \in decisive : \A j \in decisive : j <= k] = "retry"
          THEN "true" ELSE "false"

\* C8: a failure for which the chain says 'do not retry', with attempts below
\* maxRetryAttempts, takes the entry from processing to done in that step and
\* rejects its promise with that error; the target of a done entry is not
\* invoked again.
C8_NoRetryVerdict ==
    [][\A i \in DOMAIN _entries :
         /\ (/\ obs'[i].failures = obs[i].failures + 1
             /\ _entries'[i].attempts < _maxRetryAttempts
             /\ ChainVerdict(registered) = "false") =>
                /\ _entries[i].status = "processing"
                /\ _entries'[i].status = "done"
                /\ promise[i].state = "pending"
                /\ promise'[i] = [state |-> "rejected", value |-> ErrorOf(obs[i].calls)]
         /\ _entries[i].status = "done" =>
                /\ obs'[i].calls = obs[i].calls
                /\ pc'[i] \notin {"call", "running"}]_vars

\* a call rejected on its first failure, with a second attempt left
C8_Witness ==
    \E i \in DOMAIN _entries :
        /\ _maxRetryAttempts = 2
        /\ obs[i].calls = 1
        /\ obs[i].verdict = "false"
        /\ promise[i] = [state |-> "rejected", value |-> "e1"]
        /\ pc[i] = "idle"
        /\ now = MaxRetryTime

\* C9: a settled promise carries the outcome of the target's last attempt: the
\* result it returned, or the error it threw, unchanged; a pending promise
\* carries nothing; the target got the caller's arguments on every attempt.
C9_OutcomeAndArguments ==
    \A i \in DOMAIN _entries :
        /\ obs[i].seen \subseteq {obs[i].args}
        /\ obs[i].args = ArgOf(i)
        /\ promise[i].state = "resolved" =>
             /\ obs[i].last.kind = "result"
             /\ promise[i].value = obs[i].last.value
             /\ promise[i].value \in Results
        /\ promise[i].state = "rejected" =>
             /\ obs[i].last.kind = "error"
             /\ promise[i].value = obs[i].last.value
             /\ promise[i].value = ErrorOf(obs[i].calls)
        /\ promise[i].state = "pending" => obs[i].last.kind # "result"

\* a call resolved on its second attempt, after an error of the first
C9_Witness ==
    \E i \in DOMAIN _entries :
        /\ obs[i].calls = 2
        /\ obs[i].failures = 1
        /\ obs[i].seen = {ArgOf(i)}
        /\ promise[i] = [state |-> "resolved", value |-> "r1"]

\* call i is accepted
Accepted(i) == i \in DOMAIN _entries

\* call i was dispatched and invoked at most once, and not retried
AtMostOnce(i) ==
    IF i \in DOMAIN _entries
      THEN /\ obs[i].calls <= 1
           /\ _entries[i].attempts = 0
           /\ Cardinality({k \in DOMAIN _history : _history[k].entryId = i}) <= 1
    ELSE TRUE

\* call i resolved after one invocation of its target
ResolvedAfterOneCall(i) ==
    IF i \in DOMAIN _entries
      THEN /\ promise[i].state = "resolved"
           /\ obs[i].calls = 1
           /\ _entries[i].status = "done"
    ELSE FALSE

\* C6: with no limit and targets that succeed, every accepted call is in the
\* end resolved with its target invoked exactly once; no target is ever
\* invoked twice and no entry is retried.
C6_AllCallsRunOnce ==
    /\ \A i \in 1..MaxCalls : []AtMostOnce(i)
    /\ \A i \in 1..MaxCalls : Accepted(i) ~> ResolvedAfterOneCall(i)

\* MaxCalls calls were accepted and each one resolved after one invocation
C6_Witness ==
    /\ _lastId = MaxCalls
    /\ \A i \in DOMAIN _entries :
         promise[i].state = "resolved" /\ obs[i].calls = 1

\* C10: rejectAll(x) rejects with x the promise of every call that is in init
\* or waiting, in that step, and the targets of these calls are not invoked
\* afterwards.
C10_RejectAll ==
    \A k \in DOMAIN resets :
        \A i \in DOMAIN resets[k].calls :
            /\ promise[i] = [state |-> "rejected", value |-> resets[k].reason]
            /\ obs[i].calls = resets[k].calls[i]
            /\ pc[i] \notin {"call", "running"}

\* rejectAll("x") discarded a call waiting for its retry, and a call accepted
\* later was dispatched
C10_Witness ==
    \E k \in DOMAIN resets :
        /\ resets[k].reason = "x"
        /\ \E i \in DOMAIN resets[k].calls : resets[k].calls[i] = 1
        /\ \E j \in DOMAIN _entries :
             j \notin DOMAIN resets[k].calls /\ LastDispatch(j) > resets[k].at

\* the status changes the lifecycle allows
Transitions ==
    {<<"init", "waiting">>, <<"waiting", "processing">>,
     <<"processing", "waiting">>, <<"processing", "done">>}

\* C11: every step takes every entry along init->waiting, waiting->processing,
\* processing->waiting or processing->done, or leaves its status alone: an
\* entry is inserted in init and is waiting when _onWrapperCalled returns, no
\* entry returns to init or leaves done, none goes from init or waiting to done.
C11_StatusTransitions ==
    [][\A i \in DOMAIN _entries' :
         IF i \notin DOMAIN _entries
           THEN /\ NewEntry(i, ArgOf(i)).status = "init"
                /\ <<NewEntry(i, ArgOf(i)).status, _entries'[i].status>> \in Transitions
           ELSE \/ _entries'[i].status = _entries[i].status
                \/ <<_entries[i].status, _entries'[i].status>> \in Transitions]_vars

\* an entry that went waiting, processing, waiting, processing, done while
\* another one is still waiting
C11_Witness ==
    \E i, j \in DOMAIN _entries :
        /\ _entries[i].attempts = 1 /\ _entries[i].status = "done"
        /\ promise[i].state = "resolved"
        /\ _entries[j].status = "waiting" /\ _entries[j].attempts = 0

\* a waiting entry is past its delay and both headrooms are positive
Admittable ==
    /\ \E i \in DOMAIN _entries :
          _entries[i].status = "waiting" /\ _entries[i].delay < now
    /\ _calculateCallsLeftBeforeConcurrentLimit(_entries) # 0
    /\ _calculateCallsLeftBeforeIntervalLimit(_history, now) # 0

\* a continuation that ends in _planNextCycle is still to run
PlanPending == \E i \in DOMAIN pc : pc[i] = "plan"

\* C12: while there is admittable work and no re-plan is pending, a wake-up is
\* armed, and for no later than the delay of the timer armed for an entry in
\* init: never for a retry's delay or an interval length still to pass.
C12_PromptWakeUp ==
    (Admittable /\ ~PlanPending) =>
        /\ _cycleTimer # Undefined
        /\ _cycleTimer <= now + InitCycleDelay

\* C13: at most one setTimeout callback of the cycle is pending, and
\* _cycleTimer holds its handle exactly when one is pending (between two jobs
\* of the loop no tick is running).
C13_OneTimer ==
    /\ Len(timers) <= 1
    /\ _cycleTimer # Undefined <=> Len(timers) = 1
    /\ Len(timers) = 1 => timers[1] = _cycleTimer

\* a timer is armed for later while two entries wait, after a dispatch, a
\* failure and a second submission
C13_Witness ==
    /\ Len(timers) = 1 /\ _cycleTimer > now
    /\ CountStatus(_entries, "waiting") = 2
    /\ Len(_history) >= 1
    /\ \E i \in DOMAIN _entries : _entries[i].attempts = 1

\* C14: a tick that dispatches entry i leaves no entry j < i waiting whose
\* delay is <= now, an entry whose delay equals now included.
C14_FifoById ==
    [][\A i, j \in DOMAIN _entries :
         (/\ j < i
          /\ _entries[i].status = "waiting" /\ _entries'[i].status = "processing"
          /\ _entries[j].status = "waiting" /\ _entries[j].delay <= now) =>
                _entries'[j].status = "processing"]_vars

\* the entries this step dispatches
Dispatched ==
    {i \in DOMAIN _entries :
        _entries[i].status = "waiting" /\ _entries'[i].status = "processing"}

\* this step is a cycle fire: the armed timer is gone or a dispatch is recorded
CycleFired ==
    /\ _cycleTimer # Undefined
    /\ _cycleTimer' # _cycleTimer \/ _history' # _history

\* the headrooms of the state, an unconfigured limit counted as the number
\* of waiting entries
ConcurrencyHeadroom ==
    LET processing == {i \in DOMAIN _entries : _entries[i].status = "processing"}
    IN  IF _maxConcurrentCalls = Undefined THEN CountStatus(_entries, "waiting")
        ELSE IF Cardinality(processing) >= _maxConcurrentCalls THEN 0
        ELSE _maxConcurrentCalls - Cardinality(processing)

IntervalHeadroom ==
    LET recent == {k \in DOMAIN _history : now - _history[k].timestamp <= _intervalLength}
    IN  IF _maxCallsPerInterval = Undefined \/ _intervalLength = Undefined
          THEN CountStatus(_entries, "waiting")
        ELSE IF Cardinality(recent) >= _maxCallsPerInterval THEN 0
        ELSE _maxCallsPerInterval - Cardinality(recent)

\* C15: a cycle fire with a waiting entry dispatches exactly min(batch_size, q)
\* entries, batch_size the smaller headroom and q the number of waiting
\* entries with delay < now; they are the candidates with the smallest ids;
\* with batch_size 0 none is dispatched; no other step dispatches.
C15_BatchSelection ==
    [][LET candidates == {i \in DOMAIN _entries :
                            _entries[i].status = "waiting" /\ _entries[i].delay < now}
           batch_size == Min(ConcurrencyHeadroom, IntervalHeadroom)
       IN  /\ Dispatched # {} => CycleFired
           /\ CycleFired =>
                /\ Dispatched \subseteq candidates
                /\ Cardinality(Dispatched) = Min(batch_size, Cardinality(candidates))
                /\ \A i \in Dispatched, j \in candidates \ Dispatched : i < j
                /\ batch_size = 0 => Dispatched = {}]_vars

\* a cycle has just dispatched the older of two candidates and left the
\* younger one waiting for headroom (no timer: the younger one was there)
C15_Witness ==
    \E i, j \in DOMAIN _entries :
        /\ i < j
        /\ _cycleTimer = Undefined
        /\ _entries[i].status = "processing" /\ pc[i] = "call"
        /\ LastDispatch(i) = now
        /\ _entries[j].status = "waiting" /\ _entries[j].delay < now

\* call i reached done and its promise is settled
Settled(i) ==
    IF i \in DOMAIN _entries
      THEN _entries[i].status = "done" /\ promise[i].state # "pending"
    ELSE FALSE

\* C20: under the limits, with targets that complete, a clock that advances
\* and the default handler, from some moment on every accepted call is done
\* with its promise settled, whatever the successes, retries and later calls:
\* no entry stays in waiting or processing for ever.
C20_EventualSettlement ==
    <>[](\A i \in DOMAIN _entries : Settled(i))

\* all the calls are settled, one after a retry and one after two failures,
\* under both limits
C20_Witness ==
    /\ _lastId = MaxLiveCalls
    /\ _maxCallsPerInterval # Undefined /\ _maxConcurrentCalls # Undefined
    /\ \A i \in DOMAIN _entries : Settled(i)
    /\ \E i \in DOMAIN _entries :
         promise[i].state = "resolved" /\ _entries[i].attempts = 1
    /\ \E i \in DOMAIN _entries :
         promise[i].state = "rejected" /\ _entries[i].attempts = 2

\* the wake-up is as a run of _planNextCycle leaves it: a timer is armed,
\* unless no entry waits or the concurrency limit is reached
Replanned ==
    \/ _cycleTimer # Undefined
    \/ CountStatus(_entries, "waiting") = 0
    \/ ConcurrencyHeadroom = 0

\* C16: the step that takes an entry out of processing (to done or back to
\* waiting) queues the continuation that ends in _planNextCycle; that
\* continuation ends only by running _planNextCycle; and it does run: a
\* re-plan is never pending for ever.
C16_ReplanAfterProcessing ==
    /\ [][\A i \in DOMAIN _entries :
            /\ (_entries[i].status = "processing" /\ _entries'[i].status # "processing")
                  => pc'[i] = "plan"
            /\ (pc[i] = "plan" /\ pc'[i] # "plan")
                  => (pc'[i] = "idle" /\ Replanned')]_vars
    /\ []<>(~PlanPending)

\* the only call failed and went back to waiting, and the re-plan armed the
\* timer for its delay
C16_Witness ==
    /\ _lastId = 1
    /\ _entries[1].status = "waiting" /\ _entries[1].attempts = 1
    /\ pc[1] = "idle"
    /\ _cycleTimer = _entries[1].delay

\* the records of entry i in the history h
RecordsOf(h, i) == {k \in DOMAIN h : h[k].entryId = i}

\* C17: the history grows in the very steps that dispatch, by one record per
\* entry dispatched, with its id and the time of the step; the records already
\* there stay as they are; so the number of records is the number of
\* dispatches: attempts completed plus attempts under way.
C17_HistoryPerDispatch ==
    /\ [][/\ Len(_history') = Len(_history) + Cardinality(Dispatched)
          /\ SubSeq(_history', 1, Len(_history)) = _history
          /\ \A i \in Dispatched :
                \E k \in (Len(_history) + 1)..Len(_history') :
                    _history'[k] = [entryId |-> i, timestamp |-> now]]_vars
    /\ [](\A i \in DOMAIN _entries :
            Cardinality(RecordsOf(_history, i)) =
                obs[i].failures + (IF _entries[i].status = "processing" THEN 1 ELSE 0)
                + (IF promise[i].state = "resolved" THEN 1 ELSE 0))

\* one cycle dispatched two entries, one of them for its second attempt
C17_Witness ==
    /\ Len(_history) = 3
    /\ _history[2].timestamp = _history[3].timestamp
    /\ _history[1].entryId = _history[2].entryId
    /\ _history[3].entryId # _history[2].entryId

\* the wake-up a cycle leaves when the history plays no part: none when no
\* entry waits or the concurrency limit is reached, else at once for an entry
\* whose delay has come, else at the nearest delay
WakeUpWithoutHistory ==
    LET waiting == {i \in DOMAIN _entries : _entries[i].status = "waiting"}
        nearest == Least({_entries[i].delay : i \in waiting})
    IN  IF waiting = {} \/ ConcurrencyHeadroom = 0 THEN Undefined
        ELSE IF nearest <= now THEN now
        ELSE nearest

\* C18: with one of maxCallsPerInterval and intervalLength only, a cycle fire
\* dispatches min(concurrency headroom, q) entries whatever the history holds,
\* and leaves the wake-up that the waiting entries' delays and the concurrency
\* limit alone call for.
C18_HalfIntervalLimit ==
    [][(/\ (_maxCallsPerInterval = Undefined) # (_intervalLength = Undefined)
        /\ CycleFired) =>
          LET candidates == {i \in DOMAIN _entries :
                               _entries[i].status = "waiting" /\ _entries[i].delay < now}
          IN  /\ Cardinality(Dispatched) =
                    Min(ConcurrencyHeadroom, Cardinality(candidates))
              /\ _cycleTimer' = WakeUpWithoutHistory']_vars

\* with maxCallsPerInterval = 1 and no interval length, a second dispatch in
\* the millisecond of the first
C18_Witness ==
    /\ _maxCallsPerInterval = 1 /\ _intervalLength = Undefined
    /\ Len(_history) = 2
    /\ _history[1].timestamp = _history[2].timestamp

\* C19: with maxConcurrentCalls absent or >= 1 and the default handler, a
\* state with a waiting entry has a cycle timer armed, or an entry in
\* processing, or a continuation pending that ends in _planNextCycle.
C19_NoLostWakeUp ==
    (/\ _maxConcurrentCalls = Undefined \/ _maxConcurrentCalls >= 1
     /\ CountStatus(_entries, "waiting") > 0) =>
        \/ _cycleTimer # Undefined
        \/ CountStatus(_entries, "processing") > 0
        \/ PlanPending

\* an entry waits for its retry with no timer armed and no re-plan pending:
\* the call in flight is all that will wake the scheduler
C19_Witness ==
    /\ _cycleTimer = Undefined /\ ~PlanPending
    /\ \E i \in DOMAIN _entries :
         _entries[i].status = "waiting" /\ _entries[i].attempts = 1
    /\ \E j \in DOMAIN _entries :
         _entries[j].status = "processing" /\ pc[j] = "running"

====
